---- MODULE Spec2Model ----
(***************************************************************************)
(* Strip compressors of the TIFF encoder, encoder/compression.             *)
(*                                                                         *)
(* A session is one compressor instance writing strips into the sink of    *)
(* a DirectoryEncoder.  PackbitsCompressor::write_to is modelled one loop  *)
(* iteration per step; the other compressors, whose write_to is a straight *)
(* line of calls, are modelled one call per step.                          *)
(*                                                                         *)
(* Numbers that can exceed 32 bits (sink positions, converted offsets and  *)
(* byte counts) are kept exactly as pairs <<hi, lo>> of value              *)
(* hi * 2^16 + lo, so that u32::MAX and 0x1_0000_0000 are representable.   *)
(*                                                                         *)
(* A second specification, WriterSpec, is the value codec of               *)
(* encoder/tiff_value (count, write, serialize of one TiffValue) and the   *)
(* Uncompressed algorithm, which write into a plain writer.                *)
(***************************************************************************)
EXTENDS Integers, Sequences, FiniteSets, TLC

\* ------------------------------------------------------------------ bounds
\* Every byte sequence up to this length is a PackBits input.
MaxLen == 6
\* Long PackBits inputs are built of segments whose lengths lie within
\* MAX_BYTES - Slack .. MAX_BYTES + Slack (or 1 .. MIN_REPT).
Slack == 2
\* Inputs up to this many samples are combined with every sink position,
\* offset policy and failing write.
MaxTiny == 3
\* The failing write_data call of a call is one of 1 .. MaxFail (0: none).
MaxFail == 4
\* Calls of write_to on one LZW / Deflate instance.
MaxCalls == 2
\* Length of the codec payload an LZW / Deflate call produces.
MaxCodecOut == 1
\* Sink positions start within NearMax bytes below u32::MAX.
NearMax == 1
\* Strips one PackBits session encodes.
MaxStrips == 3
\* Elements of a slice value and bytes of a str value of the value codec.
MaxElems == 2

\* ------------------------------------------------------- program constants
\* A run of two taken for worthwhile.
MIN_REPT_less_one == 3 - 1
MIN_REPT == 3
\* A chunk limit one too large.
MAX_BYTES_plus_one == 128 + 1
MAX_BYTES == 128

\* ------------------------------------------------------------ wide numbers
Limb == 2 ^ 16
Wide(n) == <<n \div Limb, n % Limb>>
WAdd(w, n) == <<w[1] + ((w[2] + n) \div Limb), (w[2] + n) % Limb>>
\* w > u32::MAX
ExceedsU32(w) == w[1] >= Limb

\* ------------------------------------------------------------------ values
None == <<>>
NoResult == [tag |-> "none"]
Ok(off, cnt) == [tag |-> "Ok", offset |-> off, count |-> cnt]
\* No TiffValue at hand; a method not called yet.
NoValue == [type |-> "none", v |-> <<>>, ref |-> FALSE]
NotCalled == [called |-> FALSE]
Err(k) == [tag |-> "Err", kind |-> k]

Alphabet == <<0, 128, 255>>
ByteSet == {Alphabet[i] : i \in 1..Len(Alphabet)}
WordSet == {0, 258, 65535}

SeqsUpTo(S, n) == UNION {[1..k -> S] : k \in 0..n}

RECURSIVE Flatten(_)
Flatten(ss) == IF ss = <<>> THEN <<>> ELSE Head(ss) \o Flatten(Tail(ss))

\* x >> (8 * n), arithmetic
RECURSIVE Shr(_, _)
Shr(x, n) == IF n = 0 THEN x ELSE Shr(x \div 256, n - 1)
\* Native-endian bytes of one sample of `w` bytes (little-endian target),
\* two's complement for a negative sample.
NeBytes(x, w) == [i \in 1..w |-> Shr(x, i - 1) % 256]
\* value.data(): the samples' bytes in order.
Data(v, w) ==
  [i \in 1..(Len(v) * w) |-> NeBytes(v[((i - 1) \div w) + 1], w)[((i - 1) % w) + 1]]

\* &bytes[a..b]
Slice(s, a, b) == SubSeq(s, a + 1, b)

\* ------------------------------------------------------------------ inputs
Run(b, n) == [i \in 1..n |-> b]
\* A stretch without two equal neighbours, cycling through Alphabet from p.
Lit(p, n) == [i \in 1..n |-> Alphabet[((p + i - 2) % Len(Alphabet)) + 1]]
Seg(k, p, n) == IF k = "run" THEN Run(Alphabet[p], n) ELSE Lit(p, n)
SegKinds == {"run", "lit"}
SegLens == (1..MIN_REPT) \cup ((MAX_BYTES - Slack)..(MAX_BYTES + Slack))
LongInputs ==
  {Seg(k1, 1, n1) \o Seg(k2, p2, n2) :
     k1 \in SegKinds, n1 \in SegLens,
     k2 \in SegKinds, p2 \in 1..Len(Alphabet), n2 \in SegLens}
\* The inputs of the tests of packbits.rs.
\* b"This is a string for checking various compression algorithms."
TEST_DATA ==
  <<84, 104, 105, 115, 32, 105, 115, 32, 97, 32, 115, 116, 114, 105, 110,
    103, 32, 102, 111, 114, 32, 99, 104, 101, 99, 107, 105, 110, 103, 32,
    118, 97, 114, 105, 111, 117, 115, 32, 99, 111, 109, 112, 114, 101, 115,
    115, 105, 111, 110, 32, 97, 108, 103, 111, 114, 105, 116, 104, 109,
    115, 46>>
\* b"This st" and b"ing hangs."
This_st == <<84, 104, 105, 115, 32, 115, 116>>
ing_hangs == <<105, 110, 103, 32, 104, 97, 110, 103, 115, 46>>
\* test_packbits_single
UNCOMPRESSED_DATA_single == <<63>>
\* test_packbits_rept: "This st", 48 times 'r', "ing hangs."
UNCOMPRESSED_DATA_rept == This_st \o Run(114, 48) \o ing_hangs
\* test_packbits_large_rept_nonrept: "This st", 158 times 'r',
\* "ing hangs.", the bytes 0 .. 157
UNCOMPRESSED_DATA_large ==
  This_st \o Run(114, 158) \o ing_hangs \o [i \in 1..158 |-> i - 1]
TestInputs ==
  {TEST_DATA, UNCOMPRESSED_DATA_single, UNCOMPRESSED_DATA_rept,
   UNCOMPRESSED_DATA_large}
ShortInputs == SeqsUpTo(ByteSet, MaxLen)
\* <<width, value>>: 8-bit and 16-bit samples.
TinyInputs ==
  {<<1, v>> : v \in SeqsUpTo(ByteSet, MaxTiny)}
    \cup {<<2, v>> : v \in SeqsUpTo(WordSet, MaxTiny)}
ByteInputs == {<<1, v>> : v \in ShortInputs \cup LongInputs \cup TestInputs}

\* The sink's position when the session starts: right after the 8-byte file
\* header, or around u32::MAX.
HeaderEnd == Wide(8)
Bases ==
  {HeaderEnd, <<Limb, 0>>} \cup {<<Limb - 1, Limb - 1 - d>> : d \in 0..NearMax}
Kinds == {32, 64}
Compressors == {"None", "LZW", "Deflate", "PackBits"}

\* ------------------------------------------------------------------- state
VARIABLES
  comp,           \* the compressor instance of the session
  kind,           \* K: TiffKind, the width of K::OffsetType (32 or 64)
  start,          \* the sink's position when the current call began
  out,            \* the bytes the current call has appended to the sink
  writes,         \* write_data calls the current call has issued
  failAt,         \* the write_data call of this call that fails (0: none)
  encoderMayFail, \* whether the LZW / zlib encoder of the session can fail
  calls,          \* calls of write_to begun on the instance
  pc,             \* "idle", "loop", "rem", "ret", "done"
  width,          \* size_of::<T::Inner>()
  value,          \* value: &[T::Inner]
  result,         \* what write_to returned
  buffer,         \* LZWCompressor / DeflateCompressor .buffer
  bufferAtCall,   \* buffer as the current call found it
  bytes, bytes_written, offset,
  src_index, src_count, in_run, run_index, bytes_pending, pending_index,
  last_byte,
  history,        \* the PackBits calls of the session that have returned Ok
  tv,             \* the TiffValue at hand: [type, v, ref]
  writer,         \* the bytes the writer (TiffWriter, W: Write) has taken
  wrote,          \* what TiffValue::write returned
  serialized,     \* what TiffValue::serialize returned
  counted,        \* what TiffValue::count and ::bytes returned
  stored          \* what Uncompressed::write_to returned

env ==
  <<comp, kind, start, failAt, encoderMayFail, calls, width, value, buffer,
    bufferAtCall>>
locals ==
  <<bytes, bytes_written, offset, src_index, src_count, in_run, run_index,
    bytes_pending, pending_index, last_byte>>
\* The state of the value codec and of Uncompressed.
codec == <<tv, writer, wrote, serialized, counted, stored>>
\* The state of a session of a strip compressor.
session == <<env, out, writes, pc, result, locals, history>>
vars == <<session, codec>>

\* The sink's write position.
Position == WAdd(start, Len(out))

Init ==
  /\ comp \in Compressors
  /\ kind \in Kinds
  /\ start \in Bases
  /\ out = <<>>
  /\ writes = 0
  /\ failAt = 0
  /\ encoderMayFail \in (IF comp \in {"LZW", "Deflate"} THEN BOOLEAN ELSE {FALSE})
  /\ calls = 0
  /\ pc = "idle"
  /\ width = 1
  /\ value = <<>>
  /\ result = NoResult
  /\ buffer = <<>>
  /\ bufferAtCall = <<>>
  /\ bytes = <<>>
  /\ bytes_written = 0
  /\ offset = None
  /\ src_index = 0
  /\ src_count = 0
  /\ in_run = FALSE
  /\ run_index = 0
  /\ bytes_pending = 0
  /\ pending_index = 0
  /\ last_byte = 0
  /\ history = <<>>
  /\ tv = NoValue
  /\ writer = <<>>
  /\ wrote = NoResult
  /\ serialized = NotCalled
  /\ counted = NotCalled
  /\ stored = NoResult

\* ------------------------------------------------------- offset policy
\* K::convert_offset and the TryFrom<usize> of K::OffsetType: the value
\* unchanged, or an error when it does not fit.
\* The result is [ok |-> TRUE, v |-> the value] or [ok |-> FALSE].
convert_offset(k, w) ==
  IF k = 32 /\ ExceedsU32(w) THEN [ok |-> FALSE] ELSE [ok |-> TRUE, v |-> w]
try_into(k, n) == convert_offset(k, Wide(n))

\* ---------------------------------------------------- DirectoryEncoder
\* encoder.write_data(v) returns the position before the write and appends
\* v's bytes.  `ws` are the byte strings of the write_data calls a step
\* issues, in order.  The call that is number failAt of this write_to
\* fails, having appended a proper prefix of its bytes.
FailingAt(f, n, ws) ==
  IF f > n /\ f <= n + Len(ws) /\ ws[f - n] # <<>> THEN f - n ELSE 0
Failing(ws) == FailingAt(failAt, writes, ws)
Written(ws) == Flatten(ws)
PartlyWrittenAt(i, ws) ==
  {Flatten(SubSeq(ws, 1, i - 1)) \o SubSeq(ws[i], 1, k) : k \in 0..(Len(ws[i]) - 1)}
PartlyWritten(ws) == PartlyWrittenAt(Failing(ws), ws)

\* A failed write_data call tried once more, and the call going on.
WriteFailsRetried(ws) ==
  /\ Failing(ws) # 0
  /\ out' = out \o Written(ws)
  /\ writes' = writes + Len(ws) + 1
  /\ UNCHANGED <<pc, result>>

\* A write_data call of the step fails: write_to returns the error (`?`).
WriteFails(ws) ==
  /\ Failing(ws) # 0
  /\ out' \in {out \o p : p \in PartlyWritten(ws)}
  /\ writes' = writes + Failing(ws)
  /\ pc' = "done"
  /\ result' = Err("IoError")

\* Every write_data call of the step succeeds.
WriteSucceeds(ws) ==
  /\ Failing(ws) = 0
  /\ out' = out \o Written(ws)
  /\ writes' = writes + Len(ws)

\* ------------------------------------------------------------- PackBits
\* A literal header computed of n instead of n - 1.
encode_diff_of_n(n) == n
encode_diff(n) == n - 1
\* A header computed of n instead of n - 1.
encode_rept_of_n(n) == (256 - n) % 256
encode_rept(n) == (256 - (n - 1)) % 256

\* An offset that every later write replaces.
insert(opt, v) == v
\* Option::get_or_insert
get_or_insert(opt, v) == IF opt = None THEN v ELSE opt

\* The two write_data calls of one chunk: the header byte, then its data.
Chunk(header, data) == <<<<header>>, data>>

\* "Need at least one byte to compress"
EmptyInputOk == Ok(Wide(0), Wide(0))
EmptyInputResult == Err("CompressionError")

\* What a call may be given, by the session's surroundings: the first
\* call any input, a later call a strip the session has encoded before or
\* a run.
LaterInputs ==
  {<<width, value>>, <<1, Run(0, MIN_REPT)>>}
    \cup {<<history[i].width, history[i].value>> : i \in 1..Len(history)}
PackInputs ==
  IF calls > 0 THEN LaterInputs
  ELSE IF kind = 32 /\ start = HeaderEnd THEN ByteInputs \cup TinyInputs
       ELSE TinyInputs
FailChoices(v) == IF calls = 0 /\ Len(v) <= MaxTiny THEN 0..MaxFail ELSE {0}
\* The session goes on to the next strip after a call that returned Ok.
NextStrip ==
  /\ pc = "done" /\ result.tag = "Ok"
  /\ failAt = 0 /\ Len(value) <= MaxTiny
  /\ calls < MaxStrips

\* `let mut in_run = false;` with the flag left as the last call left it.
InRunKept == in_run
InRunAtEntry == FALSE

\* write_to up to the loop: the locals, the empty-input check, the priming
\* with the first byte.
PackbitsBegin ==
  /\ comp = "PackBits"
  /\ pc = "idle" \/ NextStrip
  /\ history' = IF pc = "idle" THEN history
                ELSE Append(history, [width |-> width, value |-> value,
                                      out |-> out, count |-> result.count])
  /\ start' = Position
  /\ out' = <<>>
  /\ writes' = 0
  /\ \E inp \in PackInputs :
       /\ width' = inp[1]
       /\ value' = inp[2]
       /\ failAt' \in FailChoices(inp[2])
       /\ LET b == Data(inp[2], inp[1])
          IN /\ bytes' = b
             /\ src_count' = Len(b)
             /\ IF Len(b) = 0
                THEN /\ result' = EmptyInputResult
                     /\ pc' = "done"
                     /\ UNCHANGED <<last_byte, src_index, bytes_pending>>
                ELSE /\ last_byte' = b[1]
                     /\ src_index' = 1
                     /\ bytes_pending' = 1
                     /\ pc' = "loop"
                     /\ result' = NoResult
  /\ calls' = calls + 1
  /\ bytes_written' = 0
  /\ offset' = None
  /\ in_run' = InRunAtEntry
  /\ run_index' = 0
  /\ pending_index' = 0
  /\ UNCHANGED <<comp, kind, encoderMayFail, buffer, bufferAtCall, codec>>

\* `bytes_pending > MAX_BYTES` taken one byte late.
FullPastLimit(bp) == bp > MAX_BYTES + 1
\* The pending bytes are more than one chunk holds.
Full(bp) == bp > MAX_BYTES

\* The run counted from the byte that made it worthwhile.
RunLengthFromHere(bp, ri) == 1
\* `bytes_pending -= run_index; // Length of run`
RunLength(bp, ri) == bp - ri

\* run_index taken of the pending count before the flush.
RunIndexBeforeFlush(bp) == bp - 1
\* `bytes_pending -= MAX_BYTES; run_index = bytes_pending - 1;`
RunIndexAfterFlush(bp) == (bp - MAX_BYTES) - 1

\* A run is taken for its length alone.
WorthwhileByLength(bp, ri) == bp - ri >= MIN_REPT
\* `(bytes_pending - run_index >= MIN_REPT) || (run_index == 0)`
Worthwhile(bp, ri) == bp - ri >= MIN_REPT \/ ri = 0

\* The body of the while loop for the byte `curr`, with src_index and
\* bytes_pending already advanced to `si` and `bp`: the chunk it writes (ws),
\* what it adds to bytes_written (bw) and the locals it leaves.
LoopBody(curr, si, bp) ==
  IF in_run
  THEN IF curr # last_byte \/ Full(bp)
       THEN [ws |-> Chunk(encode_rept(bp - 1), <<last_byte>>), bw |-> 2,
             bytes_pending |-> 1, pending_index |-> si - 1,
             run_index |-> 0, in_run |-> FALSE]
       ELSE [ws |-> <<>>, bw |-> 0,
             bytes_pending |-> bp, pending_index |-> pending_index,
             run_index |-> run_index, in_run |-> TRUE]
  ELSE IF Full(bp)
       THEN [ws |-> Chunk(encode_diff(MAX_BYTES),
                          Slice(bytes, pending_index, pending_index + MAX_BYTES)),
             bw |-> 1 + MAX_BYTES,
             bytes_pending |-> bp - MAX_BYTES,
             pending_index |-> pending_index + MAX_BYTES,
             run_index |-> RunIndexAfterFlush(bp), in_run |-> FALSE]
       ELSE IF curr = last_byte
            THEN IF Worthwhile(bp, run_index)
                 THEN [ws |-> IF run_index # 0
                              THEN Chunk(encode_diff(run_index),
                                         Slice(bytes, pending_index,
                                               pending_index + run_index))
                              ELSE <<>>,
                       bw |-> IF run_index # 0 THEN 1 + run_index ELSE 0,
                       bytes_pending |-> RunLength(bp, run_index),
                       pending_index |-> pending_index,
                       run_index |-> run_index, in_run |-> TRUE]
                 ELSE [ws |-> <<>>, bw |-> 0,
                       bytes_pending |-> bp, pending_index |-> pending_index,
                       run_index |-> run_index, in_run |-> FALSE]
            ELSE [ws |-> <<>>, bw |-> 0,
                  bytes_pending |-> bp, pending_index |-> pending_index,
                  run_index |-> bp - 1, in_run |-> FALSE]

\* One iteration of `while src_count - 1 != 0`.
PackbitsLoop ==
  /\ comp = "PackBits"
  /\ pc = "loop"
  /\ src_count - 1 # 0
  /\ LET step == LoopBody(bytes[src_index + 1], src_index + 1, bytes_pending + 1)
     IN /\ src_count' = src_count - 1
        /\ src_index' = src_index + 1
        /\ last_byte' = bytes[src_index + 1]
        /\ IF Failing(step.ws) # 0
           THEN /\ WriteFails(step.ws)
                /\ offset' = IF Failing(step.ws) = 1 THEN offset
                             ELSE get_or_insert(offset, Position)
                /\ UNCHANGED <<bytes_written, bytes_pending,
                               pending_index, run_index, in_run>>
           ELSE /\ WriteSucceeds(step.ws)
                /\ offset' = IF step.ws = <<>> THEN offset
                             ELSE get_or_insert(offset, Position)
                /\ bytes_written' = bytes_written + step.bw
                /\ bytes_pending' = step.bytes_pending
                /\ pending_index' = step.pending_index
                /\ run_index' = step.run_index
                /\ in_run' = step.in_run
                /\ UNCHANGED <<pc, result>>
  /\ UNCHANGED <<env, bytes, history, codec>>

\* "Output the remainder": the chunk written after the loop.
Remainder ==
  IF in_run
  THEN Chunk(encode_rept(bytes_pending), <<last_byte>>)
  ELSE Chunk(encode_diff(bytes_pending),
             Slice(bytes, pending_index, pending_index + bytes_pending))
\* The literal remainder counted without its header byte.
RemainderWrittenNoHeader == IF in_run THEN 2 ELSE bytes_pending
RemainderWritten == IF in_run THEN 2 ELSE 1 + bytes_pending

PackbitsRemainder ==
  /\ comp = "PackBits"
  /\ pc = "loop"
  /\ src_count - 1 = 0
  /\ bytes_written' = bytes_written + RemainderWritten
  /\ IF Failing(Remainder) # 0
     THEN /\ WriteFails(Remainder)
          /\ offset' = IF Failing(Remainder) = 1 THEN offset
                       ELSE get_or_insert(offset, Position)
     ELSE /\ WriteSucceeds(Remainder)
          /\ offset' = get_or_insert(offset, Position)
          /\ pc' = "ret"
          /\ UNCHANGED result
  /\ UNCHANGED <<env, bytes, src_index, src_count, in_run, run_index,
                 bytes_pending, pending_index, last_byte, history, codec>>

\* The offset check inverted.
PackbitsResultInverted ==
  IF offset # None
  THEN Err("CompressionError")
  ELSE Ok(Wide(0), Wide(bytes_written))

\* The conversions done as truncating casts (`as u32`).
PackbitsResultTruncating ==
  IF offset = None
  THEN Err("CompressionError")
  ELSE IF kind = 32
       THEN Ok(<<offset[1] % Limb, offset[2]>>, Wide(bytes_written))
       ELSE Ok(offset, Wide(bytes_written))

\* The end of write_to: the unreachable-offset check and the two conversions.
PackbitsResult ==
  IF offset = None
  THEN Err("CompressionError")
  ELSE IF ~convert_offset(kind, offset).ok
       THEN Err("IntSizeError")
       ELSE IF ~try_into(kind, bytes_written).ok
            THEN Err("IntSizeError")
            ELSE Ok(convert_offset(kind, offset).v, try_into(kind, bytes_written).v)

PackbitsReturn ==
  /\ comp = "PackBits"
  /\ pc = "ret"
  /\ result' = PackbitsResult
  /\ pc' = "done"
  /\ UNCHANGED <<env, out, writes, locals, history, codec>>

\* ------------------------------------------------- None, LZW, Deflate
\* A call of write_to begins: the sink stands where the last call left it.
BeginCall(inp, f) ==
  /\ calls' = calls + 1
  /\ start' = Position
  /\ width' = inp[1]
  /\ value' = inp[2]
  /\ failAt' = f
  /\ bufferAtCall' = buffer
  /\ pc' = "done"
  /\ UNCHANGED <<comp, kind, encoderMayFail, locals, history, codec>>

\* value.len().try_into()
NoneByteCount(v, w) == Len(v)

\* NoneCompressor::write_to
NoneWriteTo ==
  /\ comp = "None"
  /\ pc = "idle"
  /\ \E inp \in TinyInputs, f \in 0..1 :
       /\ BeginCall(inp, f)
       /\ LET data == Data(inp[2], inp[1])
              byte_count == try_into(kind, NoneByteCount(inp[2], inp[1]))
              off == convert_offset(kind, Position)
          IN IF ~byte_count.ok
             THEN /\ result' = Err("IntSizeError")
                  /\ out' = <<>>
                  /\ writes' = 0
             ELSE IF FailingAt(f, 0, <<data>>) # 0
                  THEN /\ result' = Err("IoError")
                       /\ out' \in PartlyWrittenAt(1, <<data>>)
                       /\ writes' = 1
                  ELSE /\ out' = data
                       /\ writes' = 1
                       /\ result' = IF off.ok THEN Ok(off.v, byte_count.v)
                                    ELSE Err("IntSizeError")
  /\ UNCHANGED buffer

\* The strips given to the codecs, whose output the model does not compute.
CodecInputs == {<<1, <<>>>>, <<1, <<0>>>>, <<2, <<258, 0>>>>}
Payloads == SeqsUpTo({7}, MaxCodecOut)
\* What the encoder appends to the buffer for the bytes b: a zlib stream
\* begins with its two header bytes, a TIFF LZW stream with the clear code.
EncoderOutputs(c, b) ==
  IF c = "Deflate" THEN {<<120, 156>> \o p : p \in Payloads}
  ELSE {<<128>> \o p : p \in Payloads}
\* A run of the encoder: whether it succeeded and what it appended.
EncoderRuns(c, b) ==
  [ok : IF encoderMayFail THEN BOOLEAN ELSE {TRUE}, produced : EncoderOutputs(c, b)]

\* consumed_out of the encode call / self.buffer.len()
LZWByteCount(buf, produced) == Len(produced)
DeflateByteCount(buf, produced) == Len(buf)

\* Whether write_to clears the buffer: only on the path that returns Ok.
ClearsBuffer(res) == res.tag = "Ok"

\* write_to after the encoder ran, leaving `buf` in self.buffer, with the
\* byte count taken of n: the conversion of the count, the write of the
\* buffer, the conversion of the offset, the clearing of the buffer.
CodecCall(f, encOk, buf, n) ==
  LET compressed_byte_count == try_into(kind, n)
      off == convert_offset(kind, Position)
  IN IF ~encOk
     THEN /\ result' = Err("CodecError")
          /\ out' = <<>>
          /\ writes' = 0
          /\ buffer' = buf
     ELSE IF ~compressed_byte_count.ok
          THEN /\ result' = Err("IntSizeError")
               /\ out' = <<>>
               /\ writes' = 0
               /\ buffer' = buf
          ELSE IF FailingAt(f, 0, <<buf>>) # 0
               THEN /\ result' = Err("IoError")
                    /\ out' \in PartlyWrittenAt(1, <<buf>>)
                    /\ writes' = 1
                    /\ buffer' = buf
               ELSE /\ out' = buf
                    /\ writes' = 1
                    /\ result' = IF off.ok THEN Ok(off.v, compressed_byte_count.v)
                                 ELSE Err("IntSizeError")
                    /\ buffer' = IF ClearsBuffer(result') THEN <<>> ELSE buf

\* LZWCompressor::write_to
LZWWriteTo ==
  /\ comp = "LZW"
  /\ pc \in {"idle", "done"}
  /\ calls < MaxCalls
  /\ \E inp \in CodecInputs, f \in 0..1 :
       \E enc \in EncoderRuns("LZW", Data(inp[2], inp[1])) :
         /\ BeginCall(inp, f)
         /\ CodecCall(f, enc.ok, buffer \o enc.produced,
                      LZWByteCount(buffer \o enc.produced, enc.produced))

\* DeflateCompressor::write_to
DeflateWriteTo ==
  /\ comp = "Deflate"
  /\ pc \in {"idle", "done"}
  /\ calls < MaxCalls
  /\ \E inp \in CodecInputs, f \in 0..1 :
       \E enc \in EncoderRuns("Deflate", Data(inp[2], inp[1])) :
         /\ BeginCall(inp, f)
         /\ CodecCall(f, enc.ok, buffer \o enc.produced,
                      DeflateByteCount(buffer \o enc.produced, enc.produced))

\* --------------------------------------------------------- value codec
\* The types that implement TiffValue: slices handed to bytecast, slices
\* written element by element, scalars, the rationals, str; `&T` for each.
BytecastSlices ==
  {"[u8]", "[i8]", "[u16]", "[i16]", "[u32]", "[i32]", "[u64]", "[i64]",
   "[f32]", "[f64]"}
ElementSlices == {"[Ifd]", "[Ifd8]", "[Rational]", "[SRational]"}
Scalars ==
  {"u8", "i8", "u16", "i16", "u32", "i32", "u64", "i64", "f32", "f64",
   "Ifd", "Ifd8"}
Rationals == {"Rational", "SRational"}
Slices == BytecastSlices \cup ElementSlices

\* The element type of a slice type.
Elem(t) ==
  CASE t = "[u8]" -> "u8" [] t = "[i8]" -> "i8"
    [] t = "[u16]" -> "u16" [] t = "[i16]" -> "i16"
    [] t = "[u32]" -> "u32" [] t = "[i32]" -> "i32"
    [] t = "[u64]" -> "u64" [] t = "[i64]" -> "i64"
    [] t = "[f32]" -> "f32" [] t = "[f64]" -> "f64"
    [] t = "[Ifd]" -> "Ifd" [] t = "[Ifd8]" -> "Ifd8"
    [] t = "[Rational]" -> "Rational" [] t = "[SRational]" -> "SRational"

\* const BYTE_LEN
BYTE_LEN(t) ==
  CASE t \in {"u8", "i8", "[u8]", "[i8]", "str"} -> 1
    [] t \in {"u16", "i16", "[u16]", "[i16]"} -> 2
    [] t \in {"u32", "i32", "f32", "Ifd", "[u32]", "[i32]", "[f32]", "[Ifd]"} -> 4
    [] t \in {"u64", "i64", "f64", "Ifd8", "Rational", "SRational",
              "[u64]", "[i64]", "[f64]", "[Ifd8]", "[Rational]", "[SRational]"} -> 8

\* Values of each scalar type (a float is its bit pattern).
Samples(t) ==
  CASE t = "u8" -> {0, 255}
    [] t = "i8" -> {-1, 127}
    [] t = "u16" -> {0, 258}
    [] t = "i16" -> {-2, 258}
    [] t \in {"u32", "u64", "Ifd", "Ifd8"} -> {8, 16909060}
    [] t \in {"i32", "i64"} -> {-1, 16909060}
    [] t \in {"f32", "f64"} -> {0, 1065353216}
    [] t = "Rational" -> {[n |-> 1, d |-> 2], [n |-> 16909060, d |-> 1]}
    [] t = "SRational" -> {[n |-> -1, d |-> 2], [n |-> 16909060, d |-> -2]}

\* The UTF-8 bytes of the characters of the str values: 'A', '~', NUL and
\* U+00E9.
Chars == {<<65>>, <<126>>, <<0>>, <<195, 169>>}
Strs == {Flatten(cs) : cs \in SeqsUpTo(Chars, MaxElems)}

ValuesOf(t) ==
  IF t \in Slices THEN SeqsUpTo(Samples(Elem(t)), MaxElems)
  ELSE IF t = "str" THEN Strs ELSE Samples(t)
TiffValues ==
  UNION {{[type |-> t, v |-> v, ref |-> r] : v \in ValuesOf(t), r \in BOOLEAN} :
         t \in Scalars \cup Rationals \cup Slices \cup {"str"}}

\* The count of a str without its terminator.
count_of_len(x) == IF x.type \in Slices \cup {"str"} THEN Len(x.v) ELSE 1
\* fn count(&self)
count(x) ==
  IF x.type \in Slices THEN Len(x.v)
  ELSE IF x.type = "str" THEN Len(x.v) + 1
  ELSE 1
\* fn bytes(&self)
bytes_of(x) == count(x) * BYTE_LEN(x.type)

\* self.is_ascii() && !self.bytes().any(|b| b == 0)
is_ascii(v) == \A i \in 1..Len(v) : v[i] <= 127
is_ascii_no_nul(v) == is_ascii(v) /\ ~(\E i \in 1..Len(v) : v[i] = 0)

\* A rational serialized with the denominator's dword first.
serialize_one_den_first(t, v) ==
  IF t \in Rationals THEN NeBytes(v.d, 4) \o NeBytes(v.n, 4)
  ELSE NeBytes(v, BYTE_LEN(t))
\* The serialization of one element of type t: to_ne_bytes, and for the
\* rationals the numerator's dword followed by the denominator's.
serialize_one(t, v) ==
  IF t \in Rationals THEN NeBytes(v.n, 4) \o NeBytes(v.d, 4)
  ELSE NeBytes(v, BYTE_LEN(t))

\* A str that fails the check serialized as if it had passed it.
serialize_str_unchecked(v) == v \o <<0>>
serialize_str(v) == IF is_ascii_no_nul(v) THEN v \o <<0>> ELSE <<>>

\* fn serialize(&self) -> Vec<u8>
serialize(x) ==
  IF x.type \in BytecastSlices THEN Data(x.v, BYTE_LEN(x.type))
  ELSE IF x.type \in ElementSlices
       THEN Flatten([i \in 1..Len(x.v) |-> serialize_one(Elem(x.type), x.v[i])])
       ELSE IF x.type = "str" THEN serialize_str(x.v)
            ELSE serialize_one(x.type, x.v)

\* TiffWriter: write_bytes and write_u8 .. write_f64 each hand the bytes,
\* native-endian, to the underlying writer in one call.
write_bytes(b) == <<b>>
write_num(n, w) == <<NeBytes(n, w)>>

\* The writer calls of the write of one element of type t.
write_one(t, v) ==
  IF t \in Rationals THEN write_num(v.n, 4) \o write_num(v.d, 4)
  ELSE write_num(v, BYTE_LEN(t))

\* A write of str that sends the bytes before it checks them.
write_str_late_check(v) ==
  IF is_ascii_no_nul(v)
  THEN [ok |-> TRUE, ws |-> write_bytes(v) \o write_num(0, 1)]
  ELSE [ok |-> FALSE, ws |-> write_bytes(v)]
write_str(v) ==
  IF is_ascii_no_nul(v)
  THEN [ok |-> TRUE, ws |-> write_bytes(v) \o write_num(0, 1)]
  ELSE [ok |-> FALSE, ws |-> <<>>]

\* fn write(&self, writer): the writer calls it issues, in order, and
\* whether it then returns Ok (each call's error is returned at once).
write(x) ==
  IF x.type \in BytecastSlices
  THEN [ok |-> TRUE, ws |-> write_bytes(Data(x.v, BYTE_LEN(x.type)))]
  ELSE IF x.type \in ElementSlices
       THEN [ok |-> TRUE,
             ws |-> Flatten([i \in 1..Len(x.v) |-> write_one(Elem(x.type), x.v[i])])]
       ELSE IF x.type = "str" THEN write_str(x.v)
            ELSE [ok |-> TRUE, ws |-> write_one(x.type, x.v)]

OkUnit == [tag |-> "Ok"]

\* A value is at hand and is not changed by the codec.
HasValue == tv.type # "none"

\* value.count() and value.bytes()
TiffValueCount ==
  /\ HasValue
  /\ ~counted.called
  /\ counted' = [called |-> TRUE, count |-> count(tv), bytes |-> bytes_of(tv)]
  /\ UNCHANGED <<session, tv, writer, wrote, serialized, stored>>

\* value.serialize()
TiffValueSerialize ==
  /\ HasValue
  /\ ~serialized.called
  /\ serialized' = [called |-> TRUE, vec |-> serialize(tv)]
  /\ UNCHANGED <<session, tv, writer, wrote, counted, stored>>

\* value.write(writer), into a writer whose call number f fails (0: none).
TiffValueWrite ==
  /\ HasValue
  /\ wrote = NoResult /\ stored = NoResult
  /\ \E f \in 0..MaxFail :
       LET w == write(tv)
       IN IF FailingAt(f, 0, w.ws) # 0
          THEN /\ writer' \in PartlyWrittenAt(FailingAt(f, 0, w.ws), w.ws)
               /\ wrote' = Err("IoError")
          ELSE /\ writer' = Written(w.ws)
               /\ wrote' = IF w.ok THEN OkUnit ELSE Err("FormatError")
  /\ UNCHANGED <<session, tv, serialized, counted, stored>>

\* What writer.write(bytes) may return for a buffer of n bytes: the number
\* of bytes the writer took, at most n (std::io::Write::write).
Accepted(n) == 0..n
UncompressedWrites(n) == Accepted(n)

\* Uncompressed::write_to(writer, bytes)
UncompressedWriteTo ==
  /\ tv.type = "[u8]" /\ ~tv.ref
  /\ wrote = NoResult /\ stored = NoResult
  /\ \/ \E byte_count \in UncompressedWrites(Len(tv.v)) :
          /\ writer' = SubSeq(tv.v, 1, byte_count)
          /\ stored' = [tag |-> "Ok", count |-> byte_count]
     \/ /\ writer' = <<>>
        /\ stored' = Err("IoError")
  /\ UNCHANGED <<session, tv, wrote, serialized, counted>>


Next ==
  \/ PackbitsBegin
  \/ PackbitsLoop
  \/ PackbitsRemainder
  \/ PackbitsReturn
  \/ NoneWriteTo
  \/ LZWWriteTo
  \/ DeflateWriteTo

Spec == Init /\ [][Next]_vars

\* The value codec and Uncompressed at work on one value.
WriterInit ==
  /\ comp = "Uncompressed"
  /\ kind = 64
  /\ start = Wide(0)
  /\ out = <<>>
  /\ writes = 0
  /\ failAt = 0
  /\ encoderMayFail = FALSE
  /\ calls = 0
  /\ pc = "idle"
  /\ width = 1
  /\ value = <<>>
  /\ result = NoResult
  /\ buffer = <<>>
  /\ bufferAtCall = <<>>
  /\ bytes = <<>>
  /\ bytes_written = 0
  /\ offset = None
  /\ src_index = 0
  /\ src_count = 0
  /\ in_run = FALSE
  /\ run_index = 0
  /\ bytes_pending = 0
  /\ pending_index = 0
  /\ last_byte = 0
  /\ history = <<>>
  /\ tv \in TiffValues
  /\ writer = <<>>
  /\ wrote = NoResult
  /\ serialized = NotCalled
  /\ counted = NotCalled
  /\ stored = NoResult

WriterNext ==
  \/ TiffValueCount
  \/ TiffValueSerialize
  \/ TiffValueWrite
  \/ UncompressedWriteTo

WriterSpec == WriterInit /\ [][WriterNext]_vars

\* ------------------------------------------------- the reference decoder
\* The chunks of a PackBits stream from position i on: header h in 0..127
\* carries h + 1 literal bytes, header v in 129..255 repeats the next byte
\* 257 - v times.  A header of 128 or a chunk cut short is "bad".
RECURSIVE Chunks(_, _)
Chunks(s, i) ==
  IF i > Len(s) THEN <<>>
  ELSE IF s[i] <= 127
       THEN IF i + s[i] + 1 > Len(s) THEN <<[kind |-> "bad"]>>
            ELSE <<[kind |-> "lit", n |-> s[i] + 1,
                    data |-> SubSeq(s, i + 1, i + s[i] + 1)]>>
                 \o Chunks(s, i + s[i] + 2)
       ELSE IF s[i] >= 129
            THEN IF i + 1 > Len(s) THEN <<[kind |-> "bad"]>>
                 ELSE <<[kind |-> "run", n |-> 257 - s[i],
                         data |-> Run(s[i + 1], 257 - s[i])]>>
                      \o Chunks(s, i + 2)
            ELSE <<[kind |-> "bad"]>>
WellFormed(cs) == \A i \in 1..Len(cs) : cs[i].kind # "bad"
Decode(s) ==
  LET cs == Chunks(s, 1)
  IN IF WellFormed(cs) THEN [ok |-> TRUE, bytes |-> Flatten([i \in 1..Len(cs) |-> cs[i].data])]
     ELSE [ok |-> FALSE]

\* write_to has returned / returned Ok.
Returned == pc = "done"
ReturnedOk == pc = "done" /\ result.tag = "Ok"
IoFailed == result = Err("IoError")

\* ------------------------------------------------------------------ claims

\* C1: PackBits round trip.  For every non-empty input, the bytes write_to
\* has appended to the sink, once the last chunk is written, decode under
\* the reference decoder to exactly the input.
C1_RoundTrip ==
  (comp = "PackBits" /\ pc \in {"ret", "done"} /\ bytes # <<>> /\ ~IoFailed)
    => (Decode(out).ok /\ Decode(out).bytes = bytes)

\* An input longer than MAX_BYTES encoded as run and literal chunks.
C1_Witness ==
  /\ comp = "PackBits" /\ ReturnedOk
  /\ Len(bytes) > MAX_BYTES
  /\ \E i, j \in 1..Len(Chunks(out, 1)) :
       Chunks(out, 1)[i].kind = "run" /\ Chunks(out, 1)[j].kind = "lit"
  /\ Decode(out).bytes = bytes

\* C2: when write_to of PackBits returns Ok for a non-empty input, the byte
\* count it returns is the number of bytes the call appended to the sink.
C2_ByteCount ==
  (comp = "PackBits" /\ ReturnedOk /\ bytes # <<>>)
    => result.count = Wide(Len(out))

\* A call that wrote a literal chunk in the loop, a run chunk and a remainder.
C2_Witness ==
  /\ comp = "PackBits" /\ ReturnedOk
  /\ writes >= 6
  /\ ~in_run
  /\ result.count = Wide(Len(out))

\* C3: when write_to of PackBits returns Ok for a non-empty input, the
\* offset it returns is the sink position before the first byte of the
\* payload, whatever the later chunk writes returned.
C3_StartOffset ==
  (comp = "PackBits" /\ ReturnedOk /\ bytes # <<>>)
    => result.offset = start

\* A call of several chunks returning the position of the first.
C3_Witness ==
  /\ comp = "PackBits" /\ ReturnedOk
  /\ Len(Chunks(out, 1)) >= 3
  /\ result.offset = start

\* C4: chunk bounds.  Whenever no write has failed, what PackBits has
\* appended is a sequence of whole chunks, each a literal chunk of 1..128
\* bytes (header 0..127) or a run chunk of 2..128 bytes (header 129..255);
\* no header is 0x80 and no chunk is empty.
C4_ChunkBounds ==
  (comp = "PackBits" /\ ~IoFailed)
    => \A i \in 1..Len(Chunks(out, 1)) :
         LET c == Chunks(out, 1)[i]
         IN /\ c.kind \in {"lit", "run"}
            /\ c.kind = "lit" => (c.n >= 1 /\ c.n <= MAX_BYTES /\ Len(c.data) = c.n)
            /\ c.kind = "run" => (c.n >= 2 /\ c.n <= MAX_BYTES)

\* An output holding a full literal chunk, a full run chunk and a run of 2.
C4_Witness ==
  /\ comp = "PackBits" /\ ReturnedOk
  /\ \E i, j, k \in 1..Len(Chunks(out, 1)) :
       /\ Chunks(out, 1)[i] = [kind |-> "run", n |-> MAX_BYTES, data |-> Run(0, MAX_BYTES)]
       /\ Chunks(out, 1)[j].kind = "lit" /\ Chunks(out, 1)[j].n = MAX_BYTES
       /\ Chunks(out, 1)[k].kind = "run" /\ Chunks(out, 1)[k].n = 2

C6_CodecEmptyInputFails ==
  (/\ comp \in {"LZW", "Deflate"} /\ Returned /\ value = <<>>
   /\ failAt = 0 /\ start = HeaderEnd /\ ~encoderMayFail)
    => (result = Err("CompressionError") /\ out = <<>>)

C8_NoneByteCount ==
  (comp = "None" /\ ReturnedOk)
    => (out = Data(value, width) /\ result.count = Wide(Len(out)))

\* C9: in any sequence of calls on one LZW or Deflate instance, every call
\* that returns Ok reports as byte count the number of bytes it appended
\* (here: with an encoder that never fails, so that an earlier call can
\* only have failed in the conversions or in the sink).
C9_CodecByteCount ==
  (comp \in {"LZW", "Deflate"} /\ ~encoderMayFail /\ ReturnedOk)
    => result.count = Wide(Len(out))

Measured == counted.called /\ serialized.called
\* The str at hand is pure ASCII without a zero byte / is not.
PlainStr == tv.type = "str" /\ \A i \in 1..Len(tv.v) : tv.v[i] \in 1..127
BadStr == tv.type = "str" /\ \E i \in 1..Len(tv.v) : tv.v[i] \notin 1..127

\* C11 as claimed: for every value of every TiffValue type, every str
\* included, the length of serialize() is count() * BYTE_LEN, which is what
\* bytes() reports.
C11_SerializedLength ==
  Measured =>
    /\ Len(serialized.vec) = counted.count * BYTE_LEN(tv.type)
    /\ counted.bytes = counted.count * BYTE_LEN(tv.type)

\* C11 as amended: the length of serialize() is count() * BYTE_LEN = bytes()
\* for every value except a str that is not pure ASCII or holds a zero
\* byte; for such a str serialize() is empty while count() is its length
\* plus one.
C11_SerializedLengthOfValid ==
  Measured =>
    /\ counted.bytes = counted.count * BYTE_LEN(tv.type)
    /\ ~BadStr => Len(serialized.vec) = counted.bytes
    /\ BadStr => (serialized.vec = <<>> /\ counted.count = Len(tv.v) + 1)

\* A slice of two rationals measured: 2 elements, 16 bytes.
C11_Witness ==
  /\ Measured
  /\ tv.type = "[SRational]" /\ Len(tv.v) = 2
  /\ counted.count = 2 /\ Len(serialized.vec) = 16

\* C12: for every str that is pure ASCII and holds no zero byte, count() is
\* the length plus 1, and write() and serialize() both produce the bytes
\* of the string in order followed by exactly one zero byte.
C12_PlainStr ==
  PlainStr =>
    /\ counted.called => counted.count = Len(tv.v) + 1
    /\ serialized.called => serialized.vec = tv.v \o <<0>>
    /\ wrote # Err("FormatError")
    /\ wrote = OkUnit => writer = tv.v \o <<0>>

\* The str "A~" counted, serialized and written.
C12_Witness ==
  /\ tv.type = "str" /\ tv.v = <<65, 126>>
  /\ Measured /\ counted.count = 3
  /\ wrote = OkUnit /\ writer = <<65, 126, 0>>
  /\ serialized.vec = writer

\* C13: write() of a str that holds a non-ASCII character or a zero byte
\* returns the format error and has appended nothing to the writer; the
\* write() of every other value fails only with the error of a writer call.
C13_BadStr ==
  wrote # NoResult =>
    /\ BadStr => (wrote = Err("FormatError") /\ writer = <<>>)
    /\ ~BadStr => wrote \in {OkUnit, Err("IoError")}

\* The write of a str holding U+00E9 has been refused.
C13_Witness ==
  /\ tv.type = "str" /\ tv.v = <<65, 195, 169>>
  /\ wrote = Err("FormatError")
  /\ writer = <<>>

\* The last chunk of the call has been written.
Flushed == comp = "PackBits" /\ pc \in {"ret", "done"} /\ bytes # <<>> /\ ~IoFailed
\* b holds n equal bytes in a row.
HasRun(b, n) ==
  \E i \in 1..(Len(b) - n + 1) : \A j \in 1..(n - 1) : b[i + j] = b[i]

\* C14: an input of 1 .. 128 bytes that holds no run of 3 or more equal
\* bytes and whose first two bytes differ (or that is one byte) is encoded
\* as exactly one literal chunk: the header Len - 1, then the input; an
\* isolated pair in the middle does not split the chunk.
C14_OneLiteralChunk ==
  (/\ Flushed
   /\ Len(bytes) <= MAX_BYTES
   /\ ~HasRun(bytes, 3)
   /\ (Len(bytes) = 1 \/ bytes[1] # bytes[2]))
    => out = <<Len(bytes) - 1>> \o bytes

\* An input of 128 bytes with a pair in the middle encoded as one chunk.
C14_Witness ==
  /\ comp = "PackBits" /\ ReturnedOk
  /\ Len(bytes) = MAX_BYTES
  /\ bytes[1] # bytes[2]
  /\ HasRun(bytes, 2) /\ ~HasRun(bytes, 3)
  /\ out = <<127>> \o bytes

\* C15 as claimed: the encoding of TEST_DATA is one literal chunk of header
\* 0x3F followed by the 64 bytes of the text.
C15_TestDataHeader3F ==
  (comp = "PackBits" /\ ReturnedOk /\ value = TEST_DATA)
    => (out[1] = 63 /\ Len(out) = 1 + 64 /\ SubSeq(out, 2, Len(out)) = TEST_DATA)

\* C15 as amended: the encoding of TEST_DATA is one literal chunk of header
\* 0x3C (60) followed by the 61 bytes of the text.
C15_TestDataHeader3C ==
  (comp = "PackBits" /\ ReturnedOk /\ value = TEST_DATA)
    => (Len(TEST_DATA) = 61 /\ out = <<60>> \o TEST_DATA)

\* test_packbits_string has run.
C15_Witness ==
  /\ comp = "PackBits" /\ ReturnedOk
  /\ value = TEST_DATA
  /\ Len(out) = 62 /\ out[1] = 60 /\ out[62] = 46

\* The chunks of the output and the input index (from 0) at which each
\* begins: a chunk begins where a pending window began.
ChunksOut == Chunks(out, 1)
RECURSIVE ChunkStart(_, _)
ChunkStart(cs, j) == IF j = 1 THEN 0 ELSE ChunkStart(cs, j - 1) + cs[j - 1].n
Starts(cs) == [j \in 1..Len(cs) |-> ChunkStart(cs, j)]
LitChunk(b, s, n) == [kind |-> "lit", n |-> n, data |-> SubSeq(b, s + 1, s + n)]
RunChunk(x, n) == [kind |-> "run", n |-> n, data |-> Run(x, n)]

\* A maximal run of at least n equal bytes begins at input index r (from 0).
RunStart(b, r, n) ==
  /\ r + n <= Len(b)
  /\ r = 0 \/ b[r] # b[r + 1]
  /\ \A m \in 2..n : b[r + m] = b[r + 1]
\* The length of the maximal run that begins at r.
RunLenAt(b, r) ==
  CHOOSE k \in 1..(Len(b) - r) :
    /\ \A m \in 1..k : b[r + m] = b[r + 1]
    /\ r + k = Len(b) \/ b[r + k + 1] # b[r + 1]

\* C16: when a maximal run of k equal bytes (3 <= k <= 128) begins after
\* p >= 1 pending literal bytes (p + 3 <= 128, no run at their start), the
\* output holds a literal chunk of exactly those p bytes (header p - 1) and
\* right after it one run chunk of all k bytes (header 257 - k).  The
\* pending bytes are those from the last chunk boundary before the run.
C16_LiteralThenRun ==
  Flushed =>
    LET cs == ChunksOut
        st == Starts(cs)
    IN WellFormed(cs) /\ \A j \in 1..Len(cs) : \A p \in 1..(MAX_BYTES - 3) :
         LET w == st[j]
             r == w + p
         IN (/\ RunStart(bytes, r, 3)
             /\ RunLenAt(bytes, r) <= MAX_BYTES
             /\ j = Len(cs) \/ st[j + 1] >= r
             /\ p = 1 \/ bytes[w + 1] # bytes[w + 2])
              => /\ j + 1 <= Len(cs)
                 /\ cs[j] = LitChunk(bytes, w, p)
                 /\ cs[j + 1] = RunChunk(bytes[r + 1], RunLenAt(bytes, r))

\* test_packbits_rept has run.
C16_Witness ==
  /\ comp = "PackBits" /\ ReturnedOk
  /\ value = UNCOMPRESSED_DATA_rept
  /\ out = <<6>> \o This_st \o <<209, 114, 9>> \o ing_hangs

\* The last chunk boundary at or before the input index r.
LastStart(st, r) ==
  CHOOSE w \in {st[j] : j \in 1..Len(st)} :
    w <= r /\ \A j \in 1..Len(st) : st[j] <= r => st[j] <= w
\* No byte among the n bytes from index s equals its successor in the input.
NoPairs(b, s, n) ==
  \A m \in 1..n : (s + m + 1 <= Len(b)) => b[s + m] # b[s + m + 1]
\* The run chunks of a maximal run of 130 .. 256 bytes that begins at r:
\* one of exactly 128, then one of the remaining bytes.
SplitRunAt(cs, st, r) ==
  \E j \in 1..(Len(cs) - 1) :
    /\ st[j] = r
    /\ cs[j] = RunChunk(bytes[r + 1], MAX_BYTES)
    /\ cs[j + 1] = RunChunk(bytes[r + 1], RunLenAt(bytes, r) - MAX_BYTES)
\* A stretch of more than 128 bytes none of which equals its successor,
\* beginning with the pending window at the chunk boundary st[j], comes out
\* as a literal chunk of exactly 128 bytes followed by a literal chunk,
\* which is the rest when the stretch of at most 256 bytes ends the input.
SplitLiterals(cs, st) ==
  \A j \in 1..Len(cs) :
    (/\ st[j] + MAX_BYTES + 1 <= Len(bytes)
     /\ NoPairs(bytes, st[j], MAX_BYTES + 1))
      => /\ j + 1 <= Len(cs)
         /\ cs[j] = LitChunk(bytes, st[j], MAX_BYTES)
         /\ cs[j + 1].kind = "lit"
         /\ (/\ Len(bytes) - st[j] <= 2 * MAX_BYTES
             /\ NoPairs(bytes, st[j], Len(bytes) - st[j]))
              => (j + 1 = Len(cs) /\ cs[j + 1].n = Len(bytes) - st[j] - MAX_BYTES)

\* C17 as claimed: every maximal run of k equal bytes, 130 <= k <= 256, is
\* emitted as a run chunk of exactly 128 followed at once by a run chunk of
\* k - 128, wherever it begins; a stretch of more than 128 bytes without
\* runs is emitted as a literal chunk of exactly 128 bytes followed by a
\* literal chunk with the rest; no chunk holds more than 128 bytes.
C17_SplitAnywhere ==
  Flushed =>
    LET cs == ChunksOut
        st == Starts(cs)
    IN /\ WellFormed(cs)
       /\ \A j \in 1..Len(cs) : cs[j].n <= MAX_BYTES
       /\ \A r \in 0..(Len(bytes) - 130) :
            (RunStart(bytes, r, 130) /\ RunLenAt(bytes, r) <= 2 * MAX_BYTES)
              => SplitRunAt(cs, st, r)
       /\ SplitLiterals(cs, st)

\* C17 as amended: a maximal run of k equal bytes, 130 <= k <= 256, that
\* begins at the start of the pending window or after p >= 1 pending
\* literal bytes (p + 3 <= 128, no run at their start) is emitted as a run
\* chunk of exactly 128 (header 0x81) followed at once by a run chunk of
\* k - 128; a stretch of more than 128 bytes none of which equals its
\* successor, beginning at the start of the pending window, is emitted as a
\* literal chunk of exactly 128 bytes (header 0x7F) followed by a literal
\* chunk with the rest; no chunk holds more than 128 bytes.  The pending
\* window begins at the last chunk boundary.
C17_SplitAtLimit ==
  Flushed =>
    LET cs == ChunksOut
        st == Starts(cs)
    IN /\ WellFormed(cs)
       /\ \A j \in 1..Len(cs) : cs[j].n <= MAX_BYTES
       /\ \A r \in 0..(Len(bytes) - 130) :
            (/\ RunStart(bytes, r, 130)
             /\ RunLenAt(bytes, r) <= 2 * MAX_BYTES
             /\ r - LastStart(st, r) + 3 <= MAX_BYTES
             /\ r - LastStart(st, r) >= 2
                  => bytes[LastStart(st, r) + 1] # bytes[LastStart(st, r) + 2])
              => SplitRunAt(cs, st, r)
       /\ SplitLiterals(cs, st)

\* test_packbits_large_rept_nonrept has run: 158 times 'r' as 0x81 'r'
\* 0xE3 'r', the 168 bytes without runs as chunks of 128 and 40.
C17_Witness ==
  /\ comp = "PackBits" /\ ReturnedOk
  /\ value = UNCOMPRESSED_DATA_large
  /\ out = <<6>> \o This_st \o <<129, 114, 227, 114>>
             \o <<127>> \o ing_hangs \o [i \in 1..118 |-> i - 1]
             \o <<39>> \o [i \in 1..40 |-> 117 + i]

\* C18: Uncompressed::write_to appends the whole of `bytes` unchanged to
\* the writer and returns bytes.len(), also with a writer whose write call
\* takes only part of the buffer.
C18_UncompressedWritesAll ==
  stored.tag = "Ok" => (writer = tv.v /\ stored.count = Len(tv.v))

\* The call i of the session's history was given the strip of this call.
SameStrip(i) == history[i].width = width /\ history[i].value = value

\* C19: determinism.  A PackBits call on a sink that accepts every write,
\* given a strip an earlier call of the session was given, appends the same
\* bytes as that call and, returning Ok, returns the same byte count,
\* whatever the sink position each began at and whatever strips were
\* encoded in between.
C19_Deterministic ==
  (comp = "PackBits" /\ Returned /\ failAt = 0) =>
    \A i \in 1..Len(history) :
      SameStrip(i) =>
        /\ out = history[i].out
        /\ result.tag = "Ok" => result.count = history[i].count

\* A strip of a literal and a run chunk encoded a second time, from another
\* position, after a strip that ended inside a run.
C19_Witness ==
  /\ comp = "PackBits" /\ ReturnedOk
  /\ Len(history) = 2
  /\ SameStrip(1) /\ ~SameStrip(2)
  /\ history[2].value = Run(0, MIN_REPT)
  /\ Len(ChunksOut) = 2
  /\ out = history[1].out
  /\ start # HeaderEnd

\* C20: once a write_data call of PackBits has failed, write_to has
\* returned that error and no (offset, byte count): the failed call is the
\* last call the sink has seen, it is not retried and no write follows it.
C20_FailedWriteIsFinal ==
  (comp = "PackBits" /\ failAt # 0 /\ writes >= failAt) =>
    /\ pc = "done"
    /\ result = Err("IoError")
    /\ writes = failAt

\* The header of the second chunk failed after the first chunk went out.
C20_Witness ==
  /\ comp = "PackBits" /\ IoFailed
  /\ failAt = 3 /\ writes = 3
  /\ Len(out) >= 2
  /\ Len(bytes) > src_index

\* C21: after every write_to call on an LZWCompressor or a
\* DeflateCompressor has returned, with Ok or with an error, the scratch
\* buffer of the instance is empty.
C21_BufferEmptyAfterCall ==
  (comp \in {"LZW", "Deflate"} /\ Returned) => buffer = <<>>

\* A maximal run of exactly 2 equal bytes begins at input index r (from 0).
PairAt(b, r) == RunStart(b, r, 2) /\ RunLenAt(b, r) = 2
\* The input index r is the first of a pending window: the start of the
\* input, or the byte after a run chunk or after a literal chunk of
\* MAX_BYTES bytes.
WindowStartAt(cs, st, r) ==
  \/ r = 0
  \/ \E j \in 1..Len(cs) :
       /\ st[j] + cs[j].n = r
       /\ cs[j].kind = "run" \/ cs[j].n = MAX_BYTES
\* The input byte of index i (from 0) was emitted as a byte of a literal chunk.
InLiteral(cs, st, i) ==
  \E j \in 1..Len(cs) :
    cs[j].kind = "lit" /\ st[j] <= i /\ i < st[j] + cs[j].n

\* C22: a maximal run of exactly 2 equal bytes is emitted as a run chunk
\* (header 0xFF, the byte) when its first byte is the first byte of the
\* pending window, and as two literal bytes at every other position.
C22_PairRule ==
  Flushed =>
    LET cs == ChunksOut
        st == Starts(cs)
    IN WellFormed(cs) /\ \A r \in 0..(Len(bytes) - 2) :
         PairAt(bytes, r) =>
           IF WindowStartAt(cs, st, r)
           THEN \E j \in 1..Len(cs) :
                  st[j] = r /\ cs[j] = RunChunk(bytes[r + 1], 2)
           ELSE InLiteral(cs, st, r) /\ InLiteral(cs, st, r + 1)

\* A pair at the start of the input went out as the run chunk 0xFF, and a
\* pair further on, inside the next window, as literal bytes.
C22_Witness ==
  /\ comp = "PackBits" /\ ReturnedOk
  /\ PairAt(bytes, 0)
  /\ SubSeq(out, 1, 2) = <<255, bytes[1]>>
  /\ \E r \in 3..(Len(bytes) - 2) :
       /\ PairAt(bytes, r)
       /\ ~WindowStartAt(ChunksOut, Starts(ChunksOut), r)
       /\ InLiteral(ChunksOut, Starts(ChunksOut), r)
       /\ InLiteral(ChunksOut, Starts(ChunksOut), r + 1)

\* The values of u8 and the operands of a header.
U8 == 0..255
HeaderCounts == 1..MAX_BYTES
\* &bytes[a..b] lies inside the input.
InInput(a, b) == 0 <= a /\ a <= b /\ b <= Len(bytes)

\* What the next iteration of the loop computes stays in range: the byte it
\* reads, the counter it raises, and in each branch the operands of the
\* subtractions, of the headers and of the slices.
IterationInRange ==
  LET curr_at == src_index
      bp == bytes_pending + 1
  IN /\ curr_at < Len(bytes)
     /\ bp \in 1..MAX_BYTES_plus_one
     /\ IF in_run
        THEN (bytes[curr_at + 1] # last_byte \/ Full(bp))
               => bp - 1 \in HeaderCounts
        ELSE IF Full(bp)
             THEN /\ InInput(pending_index, pending_index + MAX_BYTES)
                  /\ bp - MAX_BYTES \in U8
                  /\ (bp - MAX_BYTES) - 1 \in U8
             ELSE IF bytes[curr_at + 1] = last_byte
                  THEN /\ run_index < bp
                       /\ (Worthwhile(bp, run_index) /\ run_index # 0)
                            => /\ run_index \in HeaderCounts
                               /\ InInput(pending_index, pending_index + run_index)
                  ELSE bp - 1 \in U8

\* What "Output the remainder" computes stays in range.
RemainderInRange ==
  /\ bytes_pending \in HeaderCounts
  /\ ~in_run => InInput(pending_index, pending_index + bytes_pending)

\* C23: for every non-empty input PackBits never leaves the range of its
\* 8-bit counters and never indexes outside the input: bytes_pending is in
\* 1..129, the count a header is computed of (bytes_pending - 1 when a run
\* is flushed inside the loop, bytes_pending in the remainder) is in
\* 1..128, run_index is less
\* than bytes_pending where it is subtracted or taken as a literal length,
\* every slice lies inside the input, and the loop makes len - 1
\* iterations, each reading the next input byte, before the remainder.
C23_CountersInRange ==
  (comp = "PackBits" /\ bytes # <<>> /\ pc \in {"loop", "ret", "done"}) =>
    /\ src_count >= 1
    /\ src_index >= 1
    /\ bytes_pending \in HeaderCounts
    /\ run_index \in U8
    /\ src_index + src_count = Len(bytes) + 1
    /\ (pc = "loop" /\ src_count - 1 # 0) => IterationInRange
    /\ (pc = "loop" /\ src_count - 1 = 0) =>
         (src_index = Len(bytes) /\ RemainderInRange)
    /\ Flushed => (src_index = Len(bytes) /\ src_count = 1)

\* A run that follows pending literals has 128 bytes pending and one more
\* equal byte to read: the counter is about to reach 129.
C23_Witness ==
  /\ comp = "PackBits" /\ pc = "loop"
  /\ in_run /\ run_index # 0
  /\ bytes_pending = MAX_BYTES
  /\ src_count - 1 # 0
  /\ bytes[src_index + 1] = last_byte

\* The element i of the slice at hand, as a value of its own.
ElementOf(x, i) == [type |-> Elem(x.type), v |-> x.v[i], ref |-> FALSE]

\* C24: for every value whose write() returned Ok, the bytes the
\* native-endian writer has taken are the bytes serialize() returns; for a
\* slice they are the serializations of its elements in order, for a
\* rational the 4 bytes of the numerator and then the 4 of the denominator.
C24_WriteIsSerialize ==
  (wrote = OkUnit /\ serialized.called) =>
    /\ writer = serialized.vec
    /\ tv.type \in Slices =>
         writer = Flatten([i \in 1..Len(tv.v) |-> serialize(ElementOf(tv, i))])
    /\ tv.type \in Rationals =>
         /\ Len(writer) = 8
         /\ SubSeq(writer, 1, 4) = NeBytes(tv.v.n, 4)
         /\ SubSeq(writer, 5, 8) = NeBytes(tv.v.d, 4)

\* A slice of two signed rationals written and serialized: -1/2 and then
\* 0x01020304/-2, 16 bytes.
C24_Witness ==
  /\ tv.type = "[SRational]"
  /\ tv.v = <<[n |-> -1, d |-> 2], [n |-> 16909060, d |-> -2]>>
  /\ wrote = OkUnit /\ serialized.called
  /\ writer = <<255, 255, 255, 255, 2, 0, 0, 0, 4, 3, 2, 1, 254, 255, 255, 255>>
  /\ serialized.vec = writer

====
